---- MODULE Spec2Model ----
(***************************************************************************)
(* Model of the Renault dashboard front end.                               *)
(*                                                                         *)
(* Part 1: the live viewer (src/src/pages/Renault/LiveTestViewer.tsx):     *)
(* the component state, the /tests load effect, the polling effect with    *)
(* its setInterval callback, the selectors and the Start/Stop buttons.     *)
(* The HTTP backend is an external collaborator; it is modelled from the   *)
(* interface description of the specification (section 6).                 *)
(*                                                                         *)
(* Part 2: the derived chart data (chartData of LiveTestViewer.tsx): the   *)
(* per-sample derivation of vdrop, hv_minus_avg, hv_plus_avg, current_a.   *)
(*                                                                         *)
(* Part 3: the historical viewer (src/src/pages/Renault/TestViewer.tsx):   *)
(* the /tests load, the selection effect, loadSeries and the reload        *)
(* effect with the requests it leaves in flight.                           *)
(*                                                                         *)
(* Part 4: the characterization view                                       *)
(* (src/src/pages/Renault/Characteristics.tsx): loadTests, loadLife per    *)
(* life phase and reloadAll.                                               *)
(*                                                                         *)
(* Part 5: the upload page (src/unnamed/part_001, UploadCsv): isAllowed,   *)
(* onSelectFile, the drop zone, upload and Reset.                          *)
(***************************************************************************)
EXTENDS Integers, Sequences, FiniteSets, TLC

\* ---------------------------------------------------------------- bounds
MaxBackend  == 2    \* highest sample idx the backend ever holds
MaxFetches  == 2    \* /live_series requests issued in one run (all may overlap)
MaxTestId   == 1    \* test ids the backend may list are 0..MaxTestId
MaxReading  == 2    \* present readings of a sample are 0..MaxReading
MaxLoads    == 2    \* /series requests issued in one run (all may overlap)
MaxReloads  == 2    \* reloadAll calls in one run (three requests each)

\* ------------------------------------------------------ program constants
LIMIT     == 500    \* limit: 500 of the /live_series request
PERIOD_MS == 2000   \* setInterval period

Null    == -1                     \* testId === null (ids are >= 0)
Dash    == 0                      \* lastUpdate "—" (useState initial value)
NoTimer == [test_id |-> Null, system |-> 0, base |-> 0]
Systems == {1, 2, 3}              \* useState<1 | 2 | 3>
TestIds == 0 .. MaxTestId

\* Lists of tests GET /tests may answer: no test, or the tests with the
\* ids 0..MaxTestId in id order.
TestLists == {<<>>, [i \in 1 .. MaxTestId + 1 |-> i - 1]}

VARIABLES
    mounted,      \* the LiveTestViewer component is mounted
    tests,        \* useState<Test[]>: the ids of the listed tests
    testsPending, \* the GET /tests of the mount effect has not settled
    testId,       \* useState<number | null>
    system,       \* useState<1 | 2 | 3>
    live,         \* useState(false)
    data,         \* useState<Point[]>: the accumulated samples
    lastUpdate,   \* useState("—"): Dash or the clock value of the last append
    lastIdxRef,   \* useRef(0): the cursor
    timer,        \* the interval of the polling effect, NoTimer when cleared
    inflight,     \* /live_series requests issued and not yet settled
    backendMax,   \* the backend holds samples idx 1..backendMax per series
    now,          \* the wall clock read by new Date(), in poll periods
    fetchCtr,     \* history: number of /live_series requests issued
    appended,     \* history: the requests whose rows make up data, in order
    lastAct,      \* history: the step taken last; n = 1 for a response with rows
    sample,       \* chartData: the element p of data handed to the map callback
    chart,        \* chartData: the row the callback returned for p
    hTests,       \* TestViewer useState<Test[]>: the ids of the listed tests
    hTestsPending,\* TestViewer: the GET /tests of loadTests has not settled
    hQp,          \* TestViewer: the testId query parameter as a number, or Null
    hSelected,    \* TestViewer useState<number | null>
    hStatus,      \* TestViewer useState("")
    hSystem,      \* TestViewer useState<1 | 2 | 3>(1)
    hStep,        \* TestViewer useState(400)
    hTStartSec,   \* TestViewer useState(0)
    hTEndSec,     \* TestViewer useState(0)
    hSeries,      \* TestViewer useState<BackendSeriesPoint[]>([])
    hLoading,     \* TestViewer useState(false)
    hInflight,    \* TestViewer: /series requests issued and not yet settled
    hReqCtr,      \* history: number of /series requests issued
    hLatest,      \* history: how the most recently issued request stands
    hAct,         \* history: the TestViewer step taken last
    cTests,       \* Characterization useState<Test[]>: the listed test ids
    cTestsPending,\* Characterization: the GET /tests has not settled
    cSelected,    \* Characterization useState<number | null>
    cSystem,      \* Characterization useState<1 | 2 | 3>(1)
    cGrid,        \* Characterization: bol, mid, eol (CharResponse | null)
    cLoading,     \* Characterization useState({bol, mid, eol}) of booleans
    cError,       \* Characterization useState({bol, mid, eol}) of strings
    cInflight,    \* Characterization: requests issued and not yet settled
    cReqCtr,      \* history: number of reloadAll calls
    cAct,         \* history: the Characterization step taken last
    uFile,        \* UploadCsv useState<File | null>: the name of the held file
    uDragOver,    \* UploadCsv useState(false)
    uLoading,     \* UploadCsv useState(false)
    uMsg,         \* UploadCsv useState<{type, text} | null>(null)
    uInflight,    \* UploadCsv: POST /upload requests not yet settled
    uNav,         \* the route navigate() was called with, NoNav before
    uAct          \* history: the UploadCsv step taken last

viewerVars == <<mounted, tests, testsPending, testId, system, live, data,
                lastUpdate, lastIdxRef, timer, inflight, backendMax, now,
                fetchCtr, appended, lastAct>>

\* The variables of the other parts, which no step of the viewer changes.
deriveVars == <<sample, chart>>
histVars == <<hTests, hTestsPending, hQp, hSelected, hStatus, hSystem, hStep,
              hTStartSec, hTEndSec, hSeries, hLoading, hInflight, hReqCtr,
              hLatest, hAct>>
charVars == <<cTests, cTestsPending, cSelected, cSystem, cGrid, cLoading,
              cError, cInflight, cReqCtr, cAct>>
uploadVars == <<uFile, uDragOver, uLoading, uMsg, uInflight, uNav, uAct>>
otherViews == <<deriveVars, histVars, charVars, uploadVars>>

vars == <<viewerVars, otherViews>>

Act(op, n) == [op |-> op, n |-> n]

\* --------------------------------------------------------------- helpers
\* JavaScript truthiness of a number | null: null and 0 are falsy.
Truthy(t) == t # Null /\ t # 0

\* A Point with index i; a Point names neither its test nor its system, and
\* its channel readings play no part in the accumulation.
Point(i) == [idx |-> i]

RECURSIVE Range(_, _)
\* The points idx lo..hi of one series, ascending.
Range(lo, hi) ==
    IF lo > hi THEN <<>> ELSE <<Point(lo)>> \o Range(lo + 1, hi)

Min(a, b) == IF a < b THEN a ELSE b

\* GET /live_series: samples with idx > from_idx, ascending, at most limit.
\* Every series (t, s) holds the samples idx 1..held.
LiveSeries(t, s, from_idx, limit, held) ==
    Range(from_idx + 1, Min(held, from_idx + limit))

\* Guard of the polling effect: if (!live || testId === null) return;
EffectArms(l, t) == ~(~l \/ t = Null)

\* The polling effect after a render with (l, t, s): the cleanup clears the
\* previous interval, the effect body creates a new one when it arms.  The
\* interval remembers (history) how many requests were issued before it.
PollingEffect_DefaultSystem(l, t, s) ==
    IF EffectArms(l, t)
    THEN [test_id |-> t, system |-> 1, base |-> fetchCtr]
    ELSE NoTimer
PollingEffect(l, t, s) ==
    IF EffectArms(l, t)
    THEN [test_id |-> t, system |-> s, base |-> fetchCtr]
    ELSE NoTimer

\* History: once a new interval exists, the requests still pending belong
\* to an earlier session.
Outdated(fs, newTimer) ==
    IF newTimer = NoTimer THEN fs
    ELSE {[f EXCEPT !.sess = "earlier"] : f \in fs}

\* disabled={live} of both selectors.
SelectDisabled_Never == FALSE
SelectDisabled == live

\* disabled={!testId || live} of the Start Live button.
StartDisabled_OnlyLive == live
StartDisabled == ~Truthy(testId) \/ live

\* disabled={!live} of the Stop button.
StopDisabled == ~live

\* if (res.data.length > 0) { ... setLastUpdate(new Date()...) }
NextLastUpdate_Always(rows, prev, clock) == clock
NextLastUpdate(rows, prev, clock) ==
    IF Len(rows) > 0 THEN clock ELSE prev

\* if (res.data.length > 0) lastIdxRef.current = res.data[len - 1].idx
NextLastIdx_First(rows, prev) ==
    IF Len(rows) > 0 THEN rows[1].idx ELSE prev
NextLastIdx(rows, prev) ==
    IF Len(rows) > 0 THEN rows[Len(rows)].idx ELSE prev

\* if (res.data.length > 0) setData((prev) => [...prev, ...res.data])
NextData_Prepend(rows, prev) ==
    IF Len(rows) > 0 THEN rows \o prev ELSE prev
NextData_Replace(rows, prev) ==
    IF Len(rows) > 0 THEN rows ELSE prev
NextData(rows, prev) ==
    IF Len(rows) > 0 THEN prev \o rows ELSE prev

\* ------------------------------------------------------------ chartData
\* A reading of a Point is number | null; Null stands for null/undefined.
Readings == {Null} \cup (0 .. MaxReading)

\* The fields of a Point that chartData reads.
Samples == [t1 : Readings, t2 : Readings, t3 : Readings,
            b1 : Readings, b2 : Readings, b3 : Readings, b4 : Readings,
            cons : Readings]

\* The Point of the viewer part, whose readings that part leaves out.
NoSample == [t1 |-> Null, t2 |-> Null, t3 |-> Null, b1 |-> Null,
             b2 |-> Null, b3 |-> Null, b4 |-> Null, cons |-> Null]

\* No row has been computed for the sample yet.
NotDerived == [derived |-> FALSE]

\* A derived value: null, or the quotient num / den of a division.
Absent == [null |-> TRUE]
Quot(num, den) == [null |-> FALSE, num |-> num, den |-> den]

\* x != null (loose inequality: false for null and undefined only, so a
\* reading of 0 is present).
NotNull(x) == x # Null

\* vdrop: p.t1 != null && p.t2 != null && p.t3 != null
\*          ? (p.t1 + p.t2 + p.t3) / 3 : null
Zeroed(x) == IF x = Null THEN 0 ELSE x
Vdrop_MissingAsZero(p) == Quot(Zeroed(p.t1) + Zeroed(p.t2) + Zeroed(p.t3), 3)
Vdrop(p) ==
    IF NotNull(p.t1) /\ NotNull(p.t2) /\ NotNull(p.t3)
    THEN Quot(p.t1 + p.t2 + p.t3, 3)
    ELSE Absent

\* hv_minus_avg: p.b1 != null && p.b2 != null ? (p.b1 + p.b2) / 2 : null
HvMinusAvg(p) ==
    IF NotNull(p.b1) /\ NotNull(p.b2) THEN Quot(p.b1 + p.b2, 2) ELSE Absent

\* hv_plus_avg: p.b3 != null && p.b4 != null ? (p.b3 + p.b4) / 2 : null
HvPlusAvg_AllBrushes(p) ==
    IF NotNull(p.b1) /\ NotNull(p.b2) /\ NotNull(p.b3) /\ NotNull(p.b4)
    THEN Quot(p.b3 + p.b4, 2)
    ELSE Absent
HvPlusAvg(p) ==
    IF NotNull(p.b3) /\ NotNull(p.b4) THEN Quot(p.b3 + p.b4, 2) ELSE Absent

\* The callback of data.map: the fields of p, current_a and the three
\* derived values.
ChartRow(p) ==
    [derived |-> TRUE,
     t1 |-> p.t1, t2 |-> p.t2, t3 |-> p.t3,
     b1 |-> p.b1, b2 |-> p.b2, b3 |-> p.b3, b4 |-> p.b4, cons |-> p.cons,
     current_a |-> p.cons,
     vdrop |-> Vdrop(p),
     hv_minus_avg |-> HvMinusAvg(p),
     hv_plus_avg |-> HvPlusAvg(p)]

\* ------------------------------------------------------------------ Init
ViewerInit ==
    /\ mounted = TRUE
    /\ tests = <<>>
    /\ testsPending = TRUE
    /\ testId = Null
    /\ system = 1
    /\ live = FALSE
    /\ data = <<>>
    /\ lastUpdate = Dash
    /\ lastIdxRef = 0
    /\ timer = NoTimer
    /\ inflight = {}
    /\ backendMax = 0
    /\ now = 1
    /\ fetchCtr = 0
    /\ appended = <<>>
    /\ lastAct = Act("Other", 0)

\* --------------------------------------------------------------- actions
\* The testId seen by the closure of the mount effect: useState(null).
MountTestId == Null

\* api.get("/tests").then(...): setTests(res.data); the first test is
\* selected when the list is not empty and the closure's testId is null.
TestsLoaded(list) ==
    /\ testsPending
    /\ testsPending' = FALSE
    /\ IF mounted
       THEN /\ tests' = list
            /\ testId' = IF Len(list) # 0 /\ MountTestId = Null THEN list[1] ELSE testId
       ELSE UNCHANGED <<tests, testId>>
    /\ timer' = IF mounted /\ testId' # testId
                THEN PollingEffect(live, testId', system)
                ELSE timer
    /\ inflight' = IF timer' # timer THEN Outdated(inflight, timer') ELSE inflight
    /\ lastAct' = Act("Other", 0)
    /\ UNCHANGED otherViews
    /\ UNCHANGED <<mounted, system, live, data, lastUpdate, lastIdxRef,
                   backendMax, now, fetchCtr, appended>>

\* The /tests request fails: the promise has no catch, nothing changes.
TestsFailed ==
    /\ testsPending
    /\ testsPending' = FALSE
    /\ lastAct' = Act("Other", 0)
    /\ UNCHANGED otherViews
    /\ UNCHANGED <<mounted, tests, testId, system, live, data, lastUpdate,
                   lastIdxRef, timer, inflight, backendMax, now, fetchCtr,
                   appended>>

\* Test selector onChange: setTestId(Number(e.target.value)).
SelectTest(t) ==
    /\ mounted
    /\ ~SelectDisabled
    /\ \E i \in 1 .. Len(tests) : tests[i] = t
    /\ t # testId
    /\ testId' = t
    /\ timer' = PollingEffect(live, t, system)
    /\ inflight' = Outdated(inflight, timer')
    /\ lastAct' = Act("Other", 0)
    /\ UNCHANGED otherViews
    /\ UNCHANGED <<mounted, tests, testsPending, system, live, data,
                   lastUpdate, lastIdxRef, backendMax, now, fetchCtr,
                   appended>>

\* System selector onChange: setSystem(Number(e.target.value)).
SelectSystem(s) ==
    /\ mounted
    /\ ~SelectDisabled
    /\ s \in Systems
    /\ s # system
    /\ system' = s
    /\ timer' = PollingEffect(live, testId, s)
    /\ inflight' = Outdated(inflight, timer')
    /\ lastAct' = Act("Other", 0)
    /\ UNCHANGED otherViews
    /\ UNCHANGED <<mounted, tests, testsPending, testId, live, data,
                   lastUpdate, lastIdxRef, backendMax, now, fetchCtr,
                   appended>>

\* Start Live onClick: setData([]); lastIdxRef.current = 0; setLive(true);
\* the polling effect then runs for the new render.
StartLive ==
    /\ mounted
    /\ ~StartDisabled
    /\ data' = <<>>
    /\ lastIdxRef' = 0
    /\ live' = TRUE
    /\ timer' = PollingEffect(TRUE, testId, system)
    /\ inflight' = Outdated(inflight, timer')
    /\ appended' = <<>>
    /\ lastAct' = Act("StartLive", 0)
    /\ UNCHANGED otherViews
    /\ UNCHANGED <<mounted, tests, testsPending, testId, system, lastUpdate,
                   backendMax, now, fetchCtr>>

\* Stop onClick: setLive(false); the cleanup of the effect clears the timer.
StopLive_NoCleanup ==
    /\ mounted
    /\ ~StopDisabled
    /\ live' = FALSE
    /\ lastAct' = Act("StopLive", 0)
    /\ UNCHANGED otherViews
    /\ UNCHANGED <<mounted, tests, testsPending, testId, system, data,
                   lastUpdate, lastIdxRef, timer, inflight, backendMax, now,
                   fetchCtr, appended>>
StopLive_Clears ==
    /\ mounted
    /\ ~StopDisabled
    /\ live' = FALSE
    /\ timer' = PollingEffect(FALSE, testId, system)
    /\ data' = <<>>
    /\ lastIdxRef' = 0
    /\ lastAct' = Act("StopLive", 0)
    /\ UNCHANGED otherViews
    /\ UNCHANGED <<mounted, tests, testsPending, testId, system,
                   lastUpdate, inflight, backendMax, now,
                   fetchCtr, appended>>
StopLive ==
    /\ mounted
    /\ ~StopDisabled
    /\ live' = FALSE
    /\ timer' = PollingEffect(FALSE, testId, system)
    /\ lastAct' = Act("StopLive", 0)
    /\ UNCHANGED otherViews
    /\ UNCHANGED <<mounted, tests, testsPending, testId, system, data,
                   lastUpdate, lastIdxRef, inflight, backendMax, now,
                   fetchCtr, appended>>

\* The interval fires: the async callback issues GET /live_series with the
\* test and system of its closure and the cursor read at this moment.  A
\* period (2000 ms) is longer than the one-second resolution of
\* toLocaleTimeString, so every firing happens at a later clock value.
Tick ==
    /\ timer # NoTimer
    /\ fetchCtr < MaxFetches
    /\ now' = now + 1
    /\ inflight' = inflight \cup
         {[id |-> fetchCtr + 1, sess |-> "current",
           test_id |-> timer.test_id, system |-> timer.system,
           from_idx |-> lastIdxRef, limit |-> LIMIT,
           first |-> (fetchCtr = timer.base),
           held |-> backendMax]}
    /\ fetchCtr' = fetchCtr + 1
    /\ lastAct' = Act("Tick", 0)
    /\ UNCHANGED otherViews
    /\ UNCHANGED <<mounted, tests, testsPending, testId, system, live, data,
                   lastUpdate, lastIdxRef, timer, backendMax, appended>>

\* The rows the backend answers to request f when it holds h samples.
Rows(f, h) == LiveSeries(f.test_id, f.system, f.from_idx, f.limit, h)

\* await api.get(...) resolves: the rest of the callback runs.  The backend
\* answered at some moment between the request and now, when it held h
\* samples (f.held at the request, backendMax now).  After an unmount React
\* drops the state updates; the ref is still written.
Response(f, h) ==
    /\ f \in inflight
    /\ h \in f.held .. backendMax
    /\ inflight' = inflight \ {f}
    /\ lastIdxRef' = NextLastIdx(Rows(f, h), lastIdxRef)
    /\ data' = IF mounted THEN NextData(Rows(f, h), data) ELSE data
    /\ lastUpdate' = IF mounted
                     THEN NextLastUpdate(Rows(f, h), lastUpdate, now)
                     ELSE lastUpdate
    /\ appended' = IF mounted /\ Len(Rows(f, h)) > 0
                   THEN Append(appended, [id |-> f.id, sess |-> f.sess])
                   ELSE appended
    /\ lastAct' = Act("Response", IF Len(Rows(f, h)) > 0 THEN 1 ELSE 0)
    /\ UNCHANGED otherViews
    /\ UNCHANGED <<mounted, tests, testsPending, testId, system, live, timer,
                   backendMax, now, fetchCtr>>

\* await api.get(...) rejects: the callback throws, nothing is changed.
FetchFailed_Stops(f) ==
    /\ f \in inflight
    /\ inflight' = inflight \ {f}
    /\ live' = FALSE
    /\ timer' = NoTimer
    /\ lastAct' = Act("FetchFailed", 0)
    /\ UNCHANGED otherViews
    /\ UNCHANGED <<mounted, tests, testsPending, testId, system, data,
                   lastUpdate, lastIdxRef, backendMax, now, fetchCtr,
                   appended>>
FetchFailed(f) ==
    /\ f \in inflight
    /\ inflight' = inflight \ {f}
    /\ lastAct' = Act("FetchFailed", 0)
    /\ UNCHANGED otherViews
    /\ UNCHANGED <<mounted, tests, testsPending, testId, system, live, data,
                   lastUpdate, lastIdxRef, timer, backendMax, now, fetchCtr,
                   appended>>

\* The view unmounts: the cleanup of the polling effect clears the interval
\* and React discards the component's state (shown here as the initial
\* values).  The ref object and the pending promises outlive the component.
Unmount ==
    /\ mounted
    /\ mounted' = FALSE
    /\ timer' = NoTimer
    /\ tests' = <<>>
    /\ testId' = Null
    /\ system' = 1
    /\ live' = FALSE
    /\ data' = <<>>
    /\ lastUpdate' = Dash
    /\ appended' = <<>>
    /\ lastAct' = Act("Unmount", 0)
    /\ UNCHANGED otherViews
    /\ UNCHANGED <<testsPending, lastIdxRef, inflight, backendMax, now,
                   fetchCtr>>

\* The test bench records one more sample.
BackendGrow ==
    /\ backendMax < MaxBackend
    /\ backendMax' = backendMax + 1
    /\ lastAct' = Act("Other", 0)
    /\ UNCHANGED otherViews
    /\ UNCHANGED <<mounted, tests, testsPending, testId, system, live, data,
                   lastUpdate, lastIdxRef, timer, inflight, now, fetchCtr,
                   appended>>

\* ------------------------------------------------- chartData derivation
\* No sample is handed to the derivation.
DeriveIdle ==
    /\ sample = NoSample
    /\ chart = NotDerived

\* useMemo(() => data.map((p) => ({...})), [data]) for the element p.
Derive ==
    /\ ~chart.derived
    /\ chart' = ChartRow(sample)
    /\ UNCHANGED <<sample, viewerVars, histVars, charVars, uploadVars>>

\* ----------------------------------------------------- historical viewer
\* The values the number inputs of the toolbar can be given.
StepInputs == {0, 200}
TimeInputs == {-5, 5}
Max(a, b) == IF a > b THEN a ELSE b

StatusNone         == ""
StatusBackendDown  == "Backend not reachable"
StatusSeriesFailed == "Failed to load series"

\* The rows GET /series/{testId} answers: they depend on the request only.
SeriesFor(r) ==
    <<[test |-> r.test, system |-> r.system, step |-> r.step,
       t_start_sec |-> r.t_start_sec, t_end_sec |-> r.t_end_sec]>>

\* useState initial values of TestViewer; loadTests is under way.
HistInit(qp) ==
    /\ hTests = <<>>
    /\ hTestsPending = TRUE
    /\ hQp = qp
    /\ hSelected = Null
    /\ hStatus = StatusNone
    /\ hSystem = 1
    /\ hStep = 400
    /\ hTStartSec = 0
    /\ hTEndSec = 0
    /\ hSeries = <<>>
    /\ hLoading = FALSE
    /\ hInflight = {}
    /\ hReqCtr = 0
    /\ hLatest = "none"
    /\ hAct = "Other"

\* loadSeries(testId) up to its await: setLoading(true), setStatus(""), and
\* the request with the parameters of the render that called it.
LoadSeries(t, sys, st, ts, te) ==
    /\ hReqCtr < MaxLoads
    /\ hLoading' = TRUE
    /\ hStatus' = StatusNone
    /\ hReqCtr' = hReqCtr + 1
    /\ hInflight' = hInflight \cup
                      {[id |-> hReqCtr + 1, test |-> t, system |-> sys,
                        step |-> st, t_start_sec |-> ts, t_end_sec |-> te]}
    /\ hLatest' = "pending"
    /\ hAct' = "LoadSeries"

\* The reload effect, deps [selected, system, step, tStartSec, tEndSec]:
\* if (selected != null) loadSeries(selected), run after a render that
\* changed one of them.
ReloadEffect ==
    IF hSelected' # Null
    THEN LoadSeries(hSelected', hSystem', hStep', hTStartSec', hTEndSec')
    ELSE /\ hAct' = "Other"
         /\ UNCHANGED <<hLoading, hStatus, hReqCtr, hInflight, hLatest>>

\* The selection made by the effect with deps [tests, searchParams].
SelectionEffect(list, qp, sel) ==
    IF Len(list) = 0 THEN sel
    ELSE IF qp # Null /\ \E i \in 1 .. Len(list) : list[i] = qp THEN qp
    ELSE IF sel = Null THEN list[1]
    ELSE sel

\* loadTests resolves: setTests(res.data); the selection effect runs, and
\* the reload effect when it changed the selection.
HTestsLoaded(list) ==
    /\ hTestsPending
    /\ hTestsPending' = FALSE
    /\ hTests' = list
    /\ hSelected' = SelectionEffect(list, hQp, hSelected)
    /\ UNCHANGED <<hQp, hSystem, hStep, hTStartSec, hTEndSec, hSeries>>
    /\ IF hSelected' # hSelected
       THEN ReloadEffect
       ELSE /\ hAct' = "Other"
            /\ UNCHANGED <<hLoading, hStatus, hReqCtr, hInflight, hLatest>>
    /\ UNCHANGED <<viewerVars, deriveVars, charVars, uploadVars>>

\* loadTests rejects: setStatus("Backend not reachable").
HTestsFailed ==
    /\ hTestsPending
    /\ hTestsPending' = FALSE
    /\ hStatus' = StatusBackendDown
    /\ hAct' = "Other"
    /\ UNCHANGED <<hTests, hQp, hSelected, hSystem, hStep, hTStartSec,
                   hTEndSec, hSeries, hLoading, hInflight, hReqCtr, hLatest>>
    /\ UNCHANGED <<viewerVars, deriveVars, charVars, uploadVars>>

\* Test select onChange: setSelected(Number(e.target.value)).
HSelect(t) ==
    /\ \E i \in 1 .. Len(hTests) : hTests[i] = t
    /\ t # hSelected
    /\ hSelected' = t
    /\ UNCHANGED <<hTests, hTestsPending, hQp, hSystem, hStep, hTStartSec,
                   hTEndSec, hSeries>>
    /\ ReloadEffect
    /\ UNCHANGED <<viewerVars, deriveVars, charVars, uploadVars>>

\* System select onChange: setSystem(Number(e.target.value)).
HSetSystem(sys) ==
    /\ sys # hSystem
    /\ hSystem' = sys
    /\ UNCHANGED <<hTests, hTestsPending, hQp, hSelected, hStep, hTStartSec,
                   hTEndSec, hSeries>>
    /\ ReloadEffect
    /\ UNCHANGED <<viewerVars, deriveVars, charVars, uploadVars>>

\* Step input onChange: setStep(Math.max(1, Number(e.target.value))).
HSetStep(v) ==
    /\ Max(1, v) # hStep
    /\ hStep' = Max(1, v)
    /\ UNCHANGED <<hTests, hTestsPending, hQp, hSelected, hSystem,
                   hTStartSec, hTEndSec, hSeries>>
    /\ ReloadEffect
    /\ UNCHANGED <<viewerVars, deriveVars, charVars, uploadVars>>

\* Start input onChange: setTStartSec(Math.max(0, Number(e.target.value))).
HSetTStart(v) ==
    /\ Max(0, v) # hTStartSec
    /\ hTStartSec' = Max(0, v)
    /\ UNCHANGED <<hTests, hTestsPending, hQp, hSelected, hSystem, hStep,
                   hTEndSec, hSeries>>
    /\ ReloadEffect
    /\ UNCHANGED <<viewerVars, deriveVars, charVars, uploadVars>>

\* End input onChange: setTEndSec(Math.max(0, Number(e.target.value))).
HSetTEnd(v) ==
    /\ Max(0, v) # hTEndSec
    /\ hTEndSec' = Max(0, v)
    /\ UNCHANGED <<hTests, hTestsPending, hQp, hSelected, hSystem, hStep,
                   hTStartSec, hSeries>>
    /\ ReloadEffect
    /\ UNCHANGED <<viewerVars, deriveVars, charVars, uploadVars>>

\* Reload button onClick: selected != null && loadSeries(selected).
HReload ==
    /\ hSelected # Null
    /\ LoadSeries(hSelected, hSystem, hStep, hTStartSec, hTEndSec)
    /\ UNCHANGED <<hTests, hTestsPending, hQp, hSelected, hSystem, hStep,
                   hTStartSec, hTEndSec, hSeries>>
    /\ UNCHANGED <<viewerVars, deriveVars, charVars, uploadVars>>

\* The await of loadSeries resolves: setSeries(res.data), then finally.
SeriesLoaded(r) ==
    /\ r \in hInflight
    /\ hInflight' = hInflight \ {r}
    /\ hSeries' = SeriesFor(r)
    /\ hLoading' = FALSE
    /\ hLatest' = IF r.id = hReqCtr THEN "ok" ELSE hLatest
    /\ hAct' = "SeriesLoaded"
    /\ UNCHANGED <<hTests, hTestsPending, hQp, hSelected, hStatus, hSystem,
                   hStep, hTStartSec, hTEndSec, hReqCtr>>
    /\ UNCHANGED <<viewerVars, deriveVars, charVars, uploadVars>>

\* The await of loadSeries rejects: setStatus(message), setSeries([]),
\* then finally.
SeriesFailed_KeepsSeries(r) ==
    /\ r \in hInflight
    /\ hInflight' = hInflight \ {r}
    /\ hStatus' = StatusSeriesFailed
    /\ hLoading' = FALSE
    /\ hLatest' = IF r.id = hReqCtr THEN "failed" ELSE hLatest
    /\ hAct' = "SeriesFailed"
    /\ UNCHANGED <<hTests, hTestsPending, hQp, hSelected, hSystem, hStep,
                   hTStartSec, hTEndSec, hReqCtr, hSeries>>
    /\ UNCHANGED <<viewerVars, deriveVars, charVars, uploadVars>>
SeriesFailed(r) ==
    /\ r \in hInflight
    /\ hInflight' = hInflight \ {r}
    /\ hStatus' = StatusSeriesFailed
    /\ hSeries' = <<>>
    /\ hLoading' = FALSE
    /\ hLatest' = IF r.id = hReqCtr THEN "failed" ELSE hLatest
    /\ hAct' = "SeriesFailed"
    /\ UNCHANGED <<hTests, hTestsPending, hQp, hSelected, hSystem, hStep,
                   hTStartSec, hTEndSec, hReqCtr>>
    /\ UNCHANGED <<viewerVars, deriveVars, charVars, uploadVars>>

\* --------------------------------------------------- characterization
Lifes == {"bol", "mid", "eol"}

\* A grid state: null, or the CharResponse of a request.
NoGrid == [null |-> TRUE]
GridFor(r) ==
    [null |-> FALSE, test |-> r.test, system |-> r.system, life |-> r.life]

NoError   == ""
CharError == "x detail"

\* useState initial values of Characterization; loadTests is under way.
CharInit ==
    /\ cTests = <<>>
    /\ cTestsPending = TRUE
    /\ cSelected = Null
    /\ cSystem = 1
    /\ cGrid = [l \in Lifes |-> NoGrid]
    /\ cLoading = [l \in Lifes |-> FALSE]
    /\ cError = [l \in Lifes |-> NoError]
    /\ cInflight = {}
    /\ cReqCtr = 0
    /\ cAct = "Other"

\* reloadAll: loadLife for the three phases, each up to its await:
\* loading[life] = true, error[life] = "", and the request.
ReloadAll(t, sys) ==
    /\ cReqCtr < MaxReloads
    /\ cReqCtr' = cReqCtr + 1
    /\ cLoading' = [l \in Lifes |-> TRUE]
    /\ cError' = [l \in Lifes |-> NoError]
    /\ cInflight' = cInflight \cup
                      {[id |-> cReqCtr + 1, life |-> l, test |-> t,
                        system |-> sys] : l \in Lifes}
    /\ cAct' = "ReloadAll"

\* The effect with deps [selected, system]: if (selected == null) return;
\* reloadAll().
CharEffect ==
    IF cSelected' # Null
    THEN ReloadAll(cSelected', cSystem')
    ELSE /\ cAct' = "Other"
         /\ UNCHANGED <<cLoading, cError, cInflight, cReqCtr>>

\* The selected of the closure of the mount effect: useState(null).
CMountSelected == Null

\* loadTests resolves: setTests(res.data); the first test is selected
\* when the list is not empty and the closure's selected is null.
CTestsLoaded(list) ==
    /\ cTestsPending
    /\ cTestsPending' = FALSE
    /\ cTests' = list
    /\ cSelected' = IF Len(list) # 0 /\ CMountSelected = Null
                    THEN list[1] ELSE cSelected
    /\ UNCHANGED <<cSystem, cGrid>>
    /\ IF cSelected' # cSelected
       THEN CharEffect
       ELSE /\ cAct' = "Other"
            /\ UNCHANGED <<cLoading, cError, cInflight, cReqCtr>>
    /\ UNCHANGED <<viewerVars, deriveVars, histVars, uploadVars>>

\* loadTests rejects: loadTests().catch(() => {}).
CTestsFailed ==
    /\ cTestsPending
    /\ cTestsPending' = FALSE
    /\ cAct' = "Other"
    /\ UNCHANGED <<cTests, cSelected, cSystem, cGrid, cLoading, cError,
                   cInflight, cReqCtr>>
    /\ UNCHANGED <<viewerVars, deriveVars, histVars, uploadVars>>

\* Test select onChange: setSelected(Number(e.target.value)).
CSelect(t) ==
    /\ \E i \in 1 .. Len(cTests) : cTests[i] = t
    /\ t # cSelected
    /\ cSelected' = t
    /\ UNCHANGED <<cTests, cTestsPending, cSystem, cGrid>>
    /\ CharEffect
    /\ UNCHANGED <<viewerVars, deriveVars, histVars, uploadVars>>

\* System select onChange: setSystem(Number(e.target.value)).
CSetSystem(sys) ==
    /\ sys # cSystem
    /\ cSystem' = sys
    /\ UNCHANGED <<cTests, cTestsPending, cSelected, cGrid>>
    /\ CharEffect
    /\ UNCHANGED <<viewerVars, deriveVars, histVars, uploadVars>>

\* Reload button onClick={reloadAll}, disabled={selected == null}.
CReload ==
    /\ cSelected # Null
    /\ ReloadAll(cSelected, cSystem)
    /\ UNCHANGED <<cTests, cTestsPending, cSelected, cSystem, cGrid>>
    /\ UNCHANGED <<viewerVars, deriveVars, histVars, uploadVars>>

\* The await of loadLife resolves: the setter of the phase, then finally.
CharLoaded(r) ==
    /\ r \in cInflight
    /\ cInflight' = cInflight \ {r}
    /\ cGrid' = [cGrid EXCEPT ![r.life] = GridFor(r)]
    /\ cLoading' = [cLoading EXCEPT ![r.life] = FALSE]
    /\ cAct' = "CharLoaded"
    /\ UNCHANGED <<cTests, cTestsPending, cSelected, cSystem, cError,
                   cReqCtr>>
    /\ UNCHANGED <<viewerVars, deriveVars, histVars, uploadVars>>

\* The await of loadLife rejects: the error and the null grid of the
\* phase, then finally.
CharFailed_ClearsAll(r) ==
    /\ r \in cInflight
    /\ cInflight' = cInflight \ {r}
    /\ cError' = [cError EXCEPT ![r.life] = CharError]
    /\ cGrid' = [l \in Lifes |-> NoGrid]
    /\ cLoading' = [cLoading EXCEPT ![r.life] = FALSE]
    /\ cAct' = "CharFailed"
    /\ UNCHANGED <<cTests, cTestsPending, cSelected, cSystem, cReqCtr>>
    /\ UNCHANGED <<viewerVars, deriveVars, histVars, uploadVars>>
CharFailed(r) ==
    /\ r \in cInflight
    /\ cInflight' = cInflight \ {r}
    /\ cError' = [cError EXCEPT ![r.life] = CharError]
    /\ cGrid' = [cGrid EXCEPT ![r.life] = NoGrid]
    /\ cLoading' = [cLoading EXCEPT ![r.life] = FALSE]
    /\ cAct' = "CharFailed"
    /\ UNCHANGED <<cTests, cTestsPending, cSelected, cSystem, cReqCtr>>
    /\ UNCHANGED <<viewerVars, deriveVars, histVars, uploadVars>>

\* ----------------------------------------------------------- upload page
\* A file name is a sequence of characters.
FileNames ==
    { <<"a", ".", "c", "s", "v">>,  <<"A", ".", "C", "S", "V">>,
      <<"a", ".", "t", "x", "t">>,  <<"a", ".", "T", "x", "t">>,
      <<"a", ".", "x", "l", "s", "x">>, <<"a", ".", "X", "L", "S">>,
      <<"a", ".", "x", "l", "s">>,  <<".", "c", "s", "v">>,
      <<"a", ".", "c", "s", "v", ".", "e">>, <<"c", "s", "v">>,
      <<"a", ".", "x", "l">>, <<"a", ".", "e">>, <<"t", "x", "t", ".", "a">> }

\* String.prototype.toLowerCase on the characters that occur.
LowerChar(c) ==
    CASE c = "A" -> "a" [] c = "C" -> "c" [] c = "S" -> "s" [] c = "V" -> "v"
      [] c = "T" -> "t" [] c = "X" -> "x" [] c = "L" -> "l" [] OTHER -> c
ToLowerCase(name) == [i \in 1 .. Len(name) |-> LowerChar(name[i])]

\* String.prototype.endsWith.
EndsWith(name, suffix) ==
    /\ Len(name) >= Len(suffix)
    /\ SubSeq(name, Len(name) - Len(suffix) + 1, Len(name)) = suffix

Includes(name, part) ==
    \E i \in 1 .. Len(name) - Len(part) + 1 :
        SubSeq(name, i, i + Len(part) - 1) = part

\* isAllowed(file): the lower-cased name ends with .csv, .txt, .xlsx, .xls.
IsAllowed_Includes(name) ==
    LET n == ToLowerCase(name)
    IN  \/ Includes(n, <<".", "c", "s", "v">>)
        \/ Includes(n, <<".", "t", "x", "t">>)
        \/ Includes(n, <<".", "x", "l", "s", "x">>)
        \/ Includes(n, <<".", "x", "l", "s">>)
IsAllowed(name) ==
    LET n == ToLowerCase(name)
    IN  \/ EndsWith(n, <<".", "c", "s", "v">>)
        \/ EndsWith(n, <<".", "t", "x", "t">>)
        \/ EndsWith(n, <<".", "x", "l", "s", "x">>)
        \/ EndsWith(n, <<".", "x", "l", "s">>)

NoFile == <<>>          \* file === null
NoNav  == [path |-> "", testId |-> Null]

\* The messages of the page: null and the {type, text} pairs of the code.
NoMsg          == [type |-> "none", text |-> ""]
MsgUnsupported == [type |-> "bad",  text |-> "Type non supporte"]
MsgSelected    == [type |-> "info", text |-> "Selectionne"]
MsgNoFile      == [type |-> "bad",  text |-> "Veuillez selectionner un fichier"]
MsgUploading   == [type |-> "info", text |-> "Upload en cours"]
MsgImportOk    == [type |-> "ok",   text |-> "Import OK"]
MsgUploadFailed == [type |-> "bad", text |-> "Upload failed"]

\* The values res.data?.test_id can have: a number, a string, undefined.
ResponseTestIds ==
    {[type |-> "number", val |-> t] : t \in TestIds}
        \cup {[type |-> "string", val |-> 0], [type |-> "undefined", val |-> 0]}

\* typeof testId === "number" ? `/tests?testId=${testId}` : `/tests`
NavTarget_Truthy(id) ==
    IF id.type = "number" /\ id.val # 0
    THEN [path |-> "/tests", testId |-> id.val]
    ELSE [path |-> "/tests", testId |-> Null]
NavTarget(id) ==
    IF id.type = "number"
    THEN [path |-> "/tests", testId |-> id.val]
    ELSE [path |-> "/tests", testId |-> Null]

\* useState initial values of UploadCsv.
UploadInit ==
    /\ uFile = NoFile
    /\ uDragOver = FALSE
    /\ uLoading = FALSE
    /\ uMsg = NoMsg
    /\ uInflight = {}
    /\ uNav = NoNav
    /\ uAct = "Other"

\* onSelectFile(f) for a file f (onSelectFile(null) returns at once).
OnSelectFile(f) ==
    IF ~IsAllowed(f)
    THEN uFile' = NoFile /\ uMsg' = MsgUnsupported
    ELSE uFile' = f /\ uMsg' = MsgSelected

\* The file input's onChange with a chosen file.
SelectFile(f) ==
    /\ uNav = NoNav
    /\ OnSelectFile(f)
    /\ uAct' = "Select"
    /\ UNCHANGED <<uDragOver, uLoading, uInflight, uNav>>
    /\ UNCHANGED <<viewerVars, deriveVars, histVars, charVars>>

\* onDragOver: setDragOver(true); onDragLeave: setDragOver(false).
DragOver(b) ==
    /\ uNav = NoNav
    /\ uDragOver # b
    /\ uDragOver' = b
    /\ uAct' = "Other"
    /\ UNCHANGED <<uFile, uLoading, uMsg, uInflight, uNav>>
    /\ UNCHANGED <<viewerVars, deriveVars, histVars, charVars>>

\* onDrop: setDragOver(false); onSelectFile(e.dataTransfer.files?.[0]).
DropFile(f) ==
    /\ uNav = NoNav
    /\ uDragOver' = FALSE
    /\ OnSelectFile(f)
    /\ uAct' = "Select"
    /\ UNCHANGED <<uLoading, uInflight, uNav>>
    /\ UNCHANGED <<viewerVars, deriveVars, histVars, charVars>>

\* Upload onClick (disabled={loading}): without a file the message only;
\* with a file setLoading(true), the message and POST /upload.
Upload ==
    /\ uNav = NoNav
    /\ ~uLoading
    /\ IF uFile = NoFile
       THEN /\ uMsg' = MsgNoFile
            /\ UNCHANGED <<uLoading, uInflight>>
       ELSE /\ uLoading' = TRUE
            /\ uMsg' = MsgUploading
            /\ uInflight' = uInflight \cup {[file |-> uFile]}
    /\ uAct' = "Upload"
    /\ UNCHANGED <<uFile, uDragOver, uNav>>
    /\ UNCHANGED <<viewerVars, deriveVars, histVars, charVars>>

\* Reset onClick (disabled={loading}): setFile(null); setMsg(null).
ResetUpload ==
    /\ uNav = NoNav
    /\ ~uLoading
    /\ uFile' = NoFile
    /\ uMsg' = NoMsg
    /\ uAct' = "Other"
    /\ UNCHANGED <<uDragOver, uLoading, uInflight, uNav>>
    /\ UNCHANGED <<viewerVars, deriveVars, histVars, charVars>>

\* The POST resolves: the ok message, navigate(...), then finally.
UploadDone(r, id) ==
    /\ r \in uInflight
    /\ uInflight' = uInflight \ {r}
    /\ uMsg' = MsgImportOk
    /\ uNav' = NavTarget(id)
    /\ uLoading' = FALSE
    /\ uAct' = "UploadDone"
    /\ UNCHANGED <<uFile, uDragOver>>
    /\ UNCHANGED <<viewerVars, deriveVars, histVars, charVars>>

\* The POST rejects: the bad message, then finally.
UploadFailed(r) ==
    /\ r \in uInflight
    /\ uInflight' = uInflight \ {r}
    /\ uMsg' = MsgUploadFailed
    /\ uLoading' = FALSE
    /\ uAct' = "UploadFailed"
    /\ UNCHANGED <<uFile, uDragOver, uNav>>
    /\ UNCHANGED <<viewerVars, deriveVars, histVars, charVars>>

\* ======================================================== specifications
\* The live viewer.
Init ==
    /\ ViewerInit
    /\ DeriveIdle
    /\ HistInit(Null)
    /\ CharInit
    /\ UploadInit

Next ==
    \/ \E list \in TestLists : TestsLoaded(list)
    \/ TestsFailed
    \/ \E t \in TestIds : SelectTest(t)
    \/ \E s \in Systems : SelectSystem(s)
    \/ StartLive
    \/ StopLive
    \/ Tick
    \/ \E f \in inflight : \E h \in 0 .. MaxBackend : Response(f, h)
    \/ \E f \in inflight : FetchFailed(f)
    \/ Unmount
    \/ BackendGrow

Spec == Init /\ [][Next]_vars

\* The derivation applied to every sample chartData can be handed: the
\* sample is any Point, the viewer is in its state after construction.
DeriveInit ==
    /\ ViewerInit
    /\ sample \in Samples
    /\ chart = NotDerived
    /\ HistInit(Null)
    /\ CharInit
    /\ UploadInit

DeriveNext == Derive

DeriveSpec == DeriveInit /\ [][DeriveNext]_vars

\* The historical viewer, opened with or without a testId query parameter.
HistSpecInit ==
    /\ ViewerInit
    /\ DeriveIdle
    /\ \E qp \in {Null} \cup TestIds : HistInit(qp)
    /\ CharInit
    /\ UploadInit

HistNext ==
    \/ \E list \in TestLists : HTestsLoaded(list)
    \/ HTestsFailed
    \/ \E t \in TestIds : HSelect(t)
    \/ \E sys \in Systems : HSetSystem(sys)
    \/ \E v \in StepInputs : HSetStep(v)
    \/ \E v \in TimeInputs : HSetTStart(v)
    \/ \E v \in TimeInputs : HSetTEnd(v)
    \/ HReload
    \/ \E r \in hInflight : SeriesLoaded(r)
    \/ \E r \in hInflight : SeriesFailed(r)

HistSpec == HistSpecInit /\ [][HistNext]_vars

\* The characterization view.
CharNext ==
    \/ \E list \in TestLists : CTestsLoaded(list)
    \/ CTestsFailed
    \/ \E t \in TestIds : CSelect(t)
    \/ \E sys \in Systems : CSetSystem(sys)
    \/ CReload
    \/ \E r \in cInflight : CharLoaded(r)
    \/ \E r \in cInflight : CharFailed(r)

CharSpec == Init /\ [][CharNext]_vars

\* The upload page.
UploadNext ==
    \/ \E f \in FileNames : SelectFile(f)
    \/ \E b \in BOOLEAN : DragOver(b)
    \/ \E f \in FileNames : DropFile(f)
    \/ Upload
    \/ ResetUpload
    \/ \E r \in uInflight : \E id \in ResponseTestIds : UploadDone(r, id)
    \/ \E r \in uInflight : UploadFailed(r)

UploadSpec == Init /\ [][UploadNext]_vars

\* ================================================================ claims
RECURSIVE MaxIdxOf(_)
\* The greatest idx of a sequence of points, 0 for the empty sequence.
MaxIdxOf(ps) ==
    IF Len(ps) = 0 THEN 0
    ELSE LET m == MaxIdxOf(Tail(ps))
         IN  IF Head(ps).idx > m THEN Head(ps).idx ELSE m

\* C1: the idx values of the accumulated sequence are strictly increasing
\* from the first to the last element, in every reachable state.
C1_IdxStrictlyIncreasing ==
    \A i \in 1 .. Len(data) - 1 : data[i].idx < data[i + 1].idx

\* C2: while live mode is armed at most one /live_series request of the
\* session is in flight: a tick never issues a second request while the
\* previous one of the same interval is pending.
C2_AtMostOneInFlight ==
    \A f \in inflight : \A g \in inflight :
        (timer # NoTimer /\ f.sess = "current" /\ g.sess = "current") => f = g

\* C3: after Stop (live is false) a response to a request issued before the
\* stop changes neither the sequence, nor the cursor, nor last-updated.
C3_NoChangeAfterStop ==
    [][(mounted /\ ~live /\ lastAct'.op = "Response")
          => UNCHANGED <<data, lastIdxRef, lastUpdate>>]_vars

\* C4: rows of a request issued in an earlier live session are never part
\* of the sequence of the session started by a later Start Live.
C4_StaleResponseRejected ==
    \A i \in 1 .. Len(appended) : appended[i].sess = "current"

\* C5: after every append the cursor equals the greatest idx over all the
\* samples appended so far in the current live session (so the next request
\* never asks again for an idx already ingested).
C5_CursorIsMaxIdx ==
    (mounted /\ lastAct.op = "Response" /\ lastAct.n > 0)
        => lastIdxRef = MaxIdxOf(data)

\* C6: rows are appended in the order their requests were issued: of two
\* requests of one session the earlier issued one is appended first.
C6_AppendsInIssueOrder ==
    \A i \in 1 .. Len(appended) : \A j \in 1 .. Len(appended) :
        (i < j /\ appended[i].sess = "current" /\ appended[j].sess = "current")
            => appended[i].id < appended[j].id

\* C7: Start Live empties the sequence and zeroes the cursor, and the first
\* request of every live session carries from_idx = 0.
C7_FirstRequestFromZero ==
    /\ lastAct.op = "StartLive" => (data = <<>> /\ lastIdxRef = 0)
    /\ \A f \in inflight : f.first => f.from_idx = 0

\* C8: whenever the test or the system selection of the mounted view
\* changes, the sequence is cleared and the cursor is reset to zero.
C8_SelectionChangeResets ==
    [][(mounted' /\ (testId' # testId \/ system' # system))
          => (data' = <<>> /\ lastIdxRef' = 0)]_vars

\* C9: while live mode is active neither the test identifier nor the system
\* identifier changes, whatever step the mounted view takes (an unmount
\* ends live mode and discards the selection with the rest of the state).
C9_SelectionFrozenWhileLive ==
    [][(live /\ mounted') => (testId' = testId /\ system' = system)]_vars

\* C9 witness: live mode is active with a test selected once /tests has
\* settled, and a poll response has just been handled.
C9_Witness ==
    live /\ mounted /\ ~testsPending /\ testId # Null
         /\ lastAct.op = "Response" /\ timer # NoTimer

\* C10: a poll response with zero rows leaves the sequence, the cursor and
\* last-updated exactly as they were.
C10_EmptyResponseNoChange ==
    [][(lastAct'.op = "Response" /\ lastAct'.n = 0)
          => UNCHANGED <<data, lastIdxRef, lastUpdate>>]_vars

\* C10 witness: an empty response has been handled while samples were
\* already accumulated and the clock had moved on since the last append.
C10_Witness ==
    /\ mounted /\ live
    /\ lastAct.op = "Response" /\ lastAct.n = 0
    /\ Len(data) > 0
    /\ lastUpdate # Dash /\ lastUpdate # now

\* s is a prefix of t.
IsPrefix(s, t) == Len(s) <= Len(t) /\ \A i \in 1 .. Len(s) : s[i] = t[i]

\* C11: a non-empty response handled while its session is armed appends
\* exactly the returned rows, in their order, at the end of the sequence,
\* sets the cursor to the idx of the last returned row and records the
\* clock value of that moment as last-updated.
C11_NonEmptyResponseAppends ==
    [][(mounted /\ timer # NoTimer /\ lastAct'.op = "Response"
            /\ lastAct'.n = 1)
          => \A f \in inflight \ inflight' :
               f.sess = "current" =>
                 \E h \in f.held .. backendMax :
                    LET rows == LiveSeries(f.test_id, f.system, f.from_idx,
                                           f.limit, h)
                    IN  /\ Len(rows) > 0
                        /\ Len(data') = Len(data) + Len(rows)
                        /\ \A i \in 1 .. Len(data) : data'[i] = data[i]
                        /\ \A i \in 1 .. Len(rows) :
                              data'[Len(data) + i] = rows[i]
                        /\ lastIdxRef' = rows[Len(rows)].idx
                        /\ lastUpdate' = now]_vars

\* C11 witness: a response with rows has just been appended behind samples
\* that were already accumulated, in the armed session.
C11_Witness ==
    /\ mounted /\ live /\ timer # NoTimer
    /\ lastAct.op = "Response" /\ lastAct.n = 1
    /\ Len(appended) = 2 /\ appended[2].sess = "current"
    /\ Len(data) >= 2 /\ lastIdxRef = data[Len(data)].idx
    /\ lastUpdate = now

\* C12: within one live session the sequence is append-only: except for
\* Start Live (and the unmount), every step leaves the old sequence as a
\* prefix of the new one.
C12_AppendOnly ==
    [][(mounted' /\ lastAct'.op # "StartLive") => IsPrefix(data, data')]_vars

\* C12 witness: two responses were appended one after the other in the
\* same session, the second one with rows the first did not have.
C12_Witness ==
    /\ mounted /\ live
    /\ Len(appended) = 2
    /\ Len(data) >= 2 /\ data[1].idx # data[Len(data)].idx

\* C13: a failed fetch leaves live mode on and the interval running, leaves
\* the sequence and the cursor unchanged, and the request of every later
\* tick carries the cursor as from_idx; no failure is counted anywhere.
C13_FailureKeepsArmed ==
    [][/\ lastAct'.op = "FetchFailed"
            => (live' = live /\ timer' = timer /\ data' = data
                    /\ lastIdxRef' = lastIdxRef)
       /\ lastAct'.op = "Tick"
            => \A f \in inflight' \ inflight : f.from_idx = lastIdxRef]_vars

\* C13 witness: a fetch has just failed in a live session that had already
\* ingested samples; the session is still armed and the cursor is kept.
C13_Witness ==
    /\ mounted /\ live /\ timer # NoTimer
    /\ lastAct.op = "FetchFailed"
    /\ lastIdxRef > 0 /\ Len(data) > 0

\* What the view renders from: the state the user can observe.
Observable == <<tests, testId, system, live, data, lastUpdate>>

\* C14: a failed fetch is surfaced: it changes some state the user can
\* observe (an empty response changes none).
C14_FailureSurfaced ==
    [][(mounted /\ lastAct'.op = "FetchFailed")
          => Observable' # Observable]_vars

\* C15: live mode is never active without a selected test, and no
\* /live_series request is ever issued with an absent test_id.
C15_LiveNeedsTest ==
    /\ live => testId # Null
    /\ \A f \in inflight : f.test_id # Null

\* C15 witness: live mode is on with a test selected and a request for
\* that test is pending.
C15_Witness ==
    /\ mounted /\ live /\ testId # Null
    /\ \E f \in inflight : f.sess = "current" /\ f.test_id = testId

\* C16: the request a tick issues is for the selected (test, system) pair,
\* carries the cursor of that moment as from_idx, and limit = 500.
C16_RequestParameters ==
    [][lastAct'.op = "Tick"
          => /\ Cardinality(inflight' \ inflight) = 1
             /\ \A f \in inflight' \ inflight :
                   /\ f.test_id = testId /\ f.system = system
                   /\ f.from_idx = lastIdxRef
                   /\ f.limit = 500]_vars

\* C16 witness: a tick has just issued a request with a cursor above zero
\* while a system other than the default one is selected.
C16_Witness ==
    /\ mounted /\ live /\ lastAct.op = "Tick"
    /\ system # 1 /\ lastIdxRef > 0
    /\ \E f \in inflight : f.from_idx = lastIdxRef /\ f.system = system

\* C17: an interval exists only while the mounted view is live, and from a
\* state in which live is false (after Stop or after the unmount) no step
\* is a timer callback and no step issues a request.
C17_NoTickAfterStop ==
    [][/\ timer # NoTimer => (live /\ mounted)
       /\ ~live => (lastAct'.op # "Tick" /\ fetchCtr' = fetchCtr)]_vars

\* C17 witness: Stop has just been pressed in a session that had issued a
\* request which is still pending, with further ticks left to fire.
C17_Witness ==
    /\ mounted /\ ~live /\ lastAct.op = "StopLive"
    /\ timer = NoTimer
    /\ fetchCtr > 0 /\ fetchCtr < MaxFetches
    /\ inflight # {}

\* C18: ingestion leaves no gap.  Every request asks for idx > cursor only,
\* so once no request is pending a held sample at or below the cursor that
\* is missing from the accumulated sequence can never arrive while live
\* mode stays active; eventual presence of every held sample therefore
\* needs each sample at or below the cursor to be in the sequence already.
C18_NoSampleSkipped ==
    (mounted /\ live /\ inflight = {})
        => \A i \in 1 .. lastIdxRef :
              i <= backendMax => \E j \in 1 .. Len(data) : data[j].idx = i

\* C19: when t1, t2 and t3 are all present (0 included) the derived vdrop
\* is the number v with 3 * v = t1 + t2 + t3; when one of them is absent
\* vdrop is absent; a row is derived for every sample.
C19_VdropIsMeanOrAbsent ==
    /\ ~chart.derived => ENABLED Derive
    /\ chart.derived =>
          IF sample.t1 # Null /\ sample.t2 # Null /\ sample.t3 # Null
          THEN /\ ~chart.vdrop.null
               /\ chart.vdrop.den > 0
               /\ 3 * chart.vdrop.num
                     = (sample.t1 + sample.t2 + sample.t3) * chart.vdrop.den
          ELSE chart.vdrop = Absent

\* C19 witness: a row derived from a sample whose three voltage-tap
\* readings are present, one of them 0, and whose mean is not 0.
C19_Witness ==
    /\ chart.derived
    /\ sample.t1 = 0 /\ sample.t2 = 1 /\ sample.t3 = 2
    /\ ~chart.vdrop.null /\ chart.vdrop.num = chart.vdrop.den

\* The mean of two readings, stated on the value: absent unless both are
\* present, else the number v with 2 * v = x + y.
IsMeanOfTwo(v, x, y) ==
    IF x # Null /\ y # Null
    THEN ~v.null /\ v.den > 0 /\ 2 * v.num = (x + y) * v.den
    ELSE v = Absent

\* C20: hv_minus_avg is the mean of b1 and b2 when both are present and
\* absent otherwise; hv_plus_avg is the same for b3 and b4; hv_minus_avg
\* does not change when b3, b4 or a voltage tap changes, hv_plus_avg does
\* not change when b1, b2 or a voltage tap changes.
C20_HvAveragesIndependent ==
    chart.derived =>
      /\ IsMeanOfTwo(chart.hv_minus_avg, sample.b1, sample.b2)
      /\ IsMeanOfTwo(chart.hv_plus_avg, sample.b3, sample.b4)
      /\ \A x \in Readings :
            /\ \A q \in {[sample EXCEPT !.b3 = x], [sample EXCEPT !.b4 = x],
                          [sample EXCEPT !.t1 = x], [sample EXCEPT !.t2 = x],
                          [sample EXCEPT !.t3 = x]} :
                  ChartRow(q).hv_minus_avg = chart.hv_minus_avg
            /\ \A q \in {[sample EXCEPT !.b1 = x], [sample EXCEPT !.b2 = x],
                          [sample EXCEPT !.t1 = x], [sample EXCEPT !.t2 = x],
                          [sample EXCEPT !.t3 = x]} :
                  ChartRow(q).hv_plus_avg = chart.hv_plus_avg

\* C20 witness: a row with hv_minus_avg present (b1 is 0) while b3 and a
\* voltage tap are absent, so hv_plus_avg and vdrop are absent.
C20_Witness ==
    /\ chart.derived
    /\ sample.b1 = 0 /\ sample.b2 = 1 /\ sample.b3 = Null /\ sample.b4 = 2
    /\ sample.t1 = Null
    /\ ~chart.hv_minus_avg.null /\ 2 * chart.hv_minus_avg.num = chart.hv_minus_avg.den
    /\ chart.hv_plus_avg = Absent /\ chart.vdrop = Absent

\* C21: every step other than Start Live leaves the cursor where it was or
\* moves it forward.
C21_CursorNeverDecreases ==
    [][lastAct'.op # "StartLive" => lastIdxRef' >= lastIdxRef]_vars

\* C22: while the viewer is mounted the cursor is 0 when the accumulated
\* sequence is empty and the idx of its last element otherwise.
C22_CursorIsLastIdx ==
    mounted =>
        lastIdxRef = IF Len(data) = 0 THEN 0 ELSE data[Len(data)].idx

\* C22 witness: two responses have been appended in this session, the sequence
\* holds several samples and the cursor is the idx of the last one.
C22_Witness ==
    /\ mounted /\ Len(appended) = 2 /\ Len(data) >= 2
    /\ data[1].idx # data[Len(data)].idx
    /\ lastIdxRef = data[Len(data)].idx

\* C23: a Stop step turns live off and leaves the accumulated sequence, the
\* cursor, the last-updated value, the selected test and the selected
\* system as they were.
C23_StopChangesOnlyLive ==
    [][lastAct'.op = "StopLive"
          => /\ live /\ ~live'
             /\ data' = data /\ lastIdxRef' = lastIdxRef
             /\ lastUpdate' = lastUpdate
             /\ testId' = testId /\ system' = system]_vars

\* C23 witness: Stop has just been pressed with samples accumulated.
C23_Witness ==
    /\ mounted /\ ~live /\ lastAct.op = "StopLive"
    /\ Len(data) > 0 /\ lastIdxRef > 0 /\ lastUpdate # Dash
    /\ system # 1

\* C24: with a test selected and live mode off, Start Live is enabled.
C24_StartEnabledWhenSelected ==
    (mounted /\ testId # Null /\ ~live) => ~StartDisabled

\* The request for the test and parameters the historical viewer shows now.
CurrentRequest ==
    [test |-> hSelected, system |-> hSystem, step |-> hStep,
     t_start_sec |-> hTStartSec, t_end_sec |-> hTEndSec]

\* C25: once every /series request has settled and the most recently
\* issued one succeeded, the displayed series is the response to it, that
\* is the series of the current test, system, step and time window.
C25_LatestResponseDisplayed ==
    (hInflight = {} /\ hLatest = "ok") => hSeries = SeriesFor(CurrentRequest)

\* C26: a failed /series request empties the series, leaves a non-empty
\* status and loading false; a successful one replaces the series by its
\* response and leaves loading false; a call of loadSeries clears the
\* status.
C26_SeriesOutcome ==
    [][/\ hAct' = "SeriesFailed"
          => (hSeries' = <<>> /\ hStatus' # StatusNone /\ hLoading' = FALSE)
       /\ hAct' = "SeriesLoaded"
          => /\ Cardinality(hInflight \ hInflight') = 1
             /\ \A r \in hInflight \ hInflight' : hSeries' = SeriesFor(r)
             /\ hLoading' = FALSE
       /\ hAct' = "LoadSeries"
          => (hStatus' = StatusNone /\ hReqCtr' = hReqCtr + 1)]_vars

\* C26 witness: the latest request succeeded and showed its series, then
\* an earlier request failed: the series is empty and the error is shown.
C26_Witness ==
    /\ hAct = "SeriesFailed" /\ hLatest = "ok" /\ hInflight = {}
    /\ hSeries = <<>> /\ hStatus = StatusSeriesFailed /\ hLoading = FALSE

\* C27: a failed request of one phase sets the grid of that phase to null
\* and its error message, and leaves the grids and the error messages of
\* the other two phases as they were; the loading flag of a phase is false
\* after a request of that phase settles.
C27_FailureTouchesOnePhase ==
    [][\A r \in cInflight \ cInflight' :
         /\ cAct' = "CharFailed"
               => /\ cGrid'[r.life] = NoGrid
                  /\ cError'[r.life] # NoError
                  /\ \A o \in Lifes \ {r.life} :
                        cGrid'[o] = cGrid[o] /\ cError'[o] = cError[o]
         /\ cLoading'[r.life] = FALSE]_vars

\* C27 witness: the bol request has just failed after the mid request had
\* delivered its grid, while the eol request is still pending.
C27_Witness ==
    /\ cAct = "CharFailed"
    /\ cGrid["bol"] = NoGrid /\ cError["bol"] = CharError
    /\ cGrid["mid"] # NoGrid /\ cError["mid"] = NoError
    /\ ~cLoading["bol"] /\ ~cLoading["mid"] /\ cLoading["eol"]

\* The extensions the upload page accepts.
AllowedExtensions ==
    { <<".", "c", "s", "v">>, <<".", "t", "x", "t">>,
      <<".", "x", "l", "s", "x">>, <<".", "x", "l", "s">> }

HasAllowedExtension(name) ==
    \E ext \in AllowedExtensions : EndsWith(ToLowerCase(name), ext)

\* C28: the held file is absent or has an allowed extension; selecting or
\* dropping a file without one clears the held file; a POST /upload is
\* issued only for the held file, never without a file, and every pending
\* POST carries a file with an allowed extension.
C28_OnlyAllowedFilesUploaded ==
    [][/\ uFile = NoFile \/ HasAllowedExtension(uFile)
       /\ \A r \in uInflight : r.file # NoFile /\ HasAllowedExtension(r.file)
       /\ \A f \in FileNames :
             ((SelectFile(f) \/ DropFile(f)) /\ ~HasAllowedExtension(f))
                 => uFile' = NoFile
       /\ \A r \in uInflight' \ uInflight : uFile # NoFile /\ r.file = uFile
       /\ (uAct' = "Upload" /\ uFile = NoFile) => uInflight' = uInflight]_vars

\* C28 witness: a POST is pending for the held file, whose name has an
\* upper-case allowed extension.
C28_Witness ==
    /\ uAct = "Upload" /\ uLoading
    /\ uFile = <<"A", ".", "C", "S", "V">>
    /\ uInflight = {[file |-> uFile]}

\* C29: when an upload settles loading is false; on success the route is
\* /tests with testId = id when the response's test_id is a number and
\* /tests without it otherwise; on failure there is no navigation and the
\* message is of type bad.
C29_UploadOutcome ==
    [][/\ uAct' \in {"UploadDone", "UploadFailed"} => uLoading' = FALSE
       /\ \A r \in uInflight : \A id \in ResponseTestIds :
             UploadDone(r, id)
                 => /\ uNav'.path = "/tests"
                    /\ uNav'.testId = IF id.type = "number" THEN id.val
                                                              ELSE Null
       /\ uAct' = "UploadFailed"
             => (uNav' = NoNav /\ uNav = NoNav /\ uMsg'.type = "bad")]_vars

\* C29 witness: an upload has just succeeded with the numeric test_id 0:
\* the route is /tests?testId=0 and loading is false.
C29_Witness ==
    /\ uAct = "UploadDone" /\ uLoading = FALSE /\ uInflight = {}
    /\ uNav = [path |-> "/tests", testId |-> 0]
    /\ uMsg = MsgImportOk

====
